---- MODULE Spec2Model ----
(***************************************************************************)
(* libthinkdock: the controller pool (DisplayManager::ScreenResources) and *)
(* the per-output wrapper (DisplayManager::Monitor) of libthinkdock.cpp.   *)
(*                                                                         *)
(* Controllers, outputs and modes are X11 XIDs: positive integers, with    *)
(* None (0) the null XID.  A Monitor* is the index of the Monitor in the   *)
(* pool's monitors vector, 0 standing for nullptr.  A pointer to an        *)
(* XRRCrtcInfo / XRROutputInfo is a record with a `null` flag.  A pointer  *)
(* into the mode catalog is the index of the entry, 0 standing for null.   *)
(***************************************************************************)
EXTENDS Integers, Sequences, FiniteSets, Bags, TLC

VARIABLES
    controllers,           \* ScreenResources::controllers (snapshot, never changed)
    videoOutputs,          \* ScreenResources::videoOutputs (snapshot)
    availableControllers,  \* ScreenResources::availableControllers
    monitors,              \* ScreenResources::monitors, a sequence of Monitor records
    status,                \* "ok", "crashed" (invalid access trapped) or "hung" (a loop never ends)
    call,                  \* the last API call: [op, m, ret]
    hist                   \* the calls made on the pool itself, oldest first

vars == <<controllers, videoOutputs, availableControllers, monitors, status, call, hist>>

-----------------------------------------------------------------------------
(* Bounds of the model *)

\* at most this many CRTCs in the server's snapshot
NumControllers == 2
\* at most this many outputs in the server's snapshot
NumOutputs == 2
\* the availability vector is not grown beyond this length by direct releases
MaxAvail == 3
\* number of direct pool calls recorded in hist
MaxHist == 5
\* number of Monitors in a layout
NumLayoutMonitors == 3
\* number of neighbour-setter calls that build a layout
MaxLinks == 2
\* number of layout calls in a run
MaxLayoutCalls == 2
\* number of requestSuspend calls in a run
MaxSuspendRequests == 2
\* number of applyConfiguration calls in a run
MaxApplyCalls == 2
\* number of neighbour-setter calls made before the first applyConfiguration of a run
\* that applies twice
MaxReapplyLinks == 1

\* how many outputs discovery finds when queries may fail, and how many neighbour-setter
\* calls link their Monitors
NumQueryMonitors == 2
MaxQueryLinks == 1

-----------------------------------------------------------------------------
(* X11 values *)

None == 0

\* the mode catalog of the snapshot (resources->modes): ids 1 and 2
videoOutputModes ==
    << [id |-> 1, width |-> 1920, height |-> 1080],
       [id |-> 2, width |-> 1600, height |-> 900] >>

\* the mode ids offered to setOutputMode and reported by the server: the catalog's ids
\* and one id the catalog does not hold
ModeIds == 1..(Len(videoOutputModes) + 1)

\* positions handed to setPosition
Points == { <<0, 0>>, <<1920, 0>> }

Range(s) == { s[i] : i \in DOMAIN s }

\* a sequence as a bag (membership with multiplicity)
SeqToBag(s) == [ v \in Range(s) |-> Cardinality({ i \in DOMAIN s : s[i] = v }) ]

\* the sequence s without its i-th element: vector::erase(begin() + i - 1)
RemoveAt(s, i) == SubSeq(s, 1, i - 1) \o SubSeq(s, i + 1, Len(s))

\* the catalog entry whose id is `mode`, 0 (null) when there is none
FindMode(mode) ==
    IF \E i \in DOMAIN videoOutputModes : videoOutputModes[i].id = mode
    THEN CHOOSE i \in DOMAIN videoOutputModes : videoOutputModes[i].id = mode
    ELSE 0

-----------------------------------------------------------------------------
(* What the server answers *)

NullCrtcInfo == [null |-> TRUE, mode |-> None, x |-> 0, y |-> 0, width |-> 0, height |-> 0]

\* XRRGetCrtcInfo: null, or the CRTC's current mode and geometry
CrtcInfoOfMode(mode) ==
    [null |-> FALSE, mode |-> mode, x |-> 0, y |-> 0,
     width  |-> IF FindMode(mode) = 0 THEN 0 ELSE videoOutputModes[FindMode(mode)].width,
     height |-> IF FindMode(mode) = 0 THEN 0 ELSE videoOutputModes[FindMode(mode)].height]

CrtcInfoAnswers == {NullCrtcInfo} \cup { CrtcInfoOfMode(mode) : mode \in {None} \cup ModeIds }

NullOutputInfo == [null |-> TRUE, crtc |-> None, mm_width |-> 0, mm_height |-> 0]

\* XRRGetOutputInfo: null, or the output's CRTC (None when it drives nothing) and physical size
OutputInfoAnswers(output) ==
    {NullOutputInfo} \cup
    { [null |-> FALSE, crtc |-> c, mm_width |-> 300 + 40 * output, mm_height |-> 200 + 10 * output]
        : c \in {None} \cup Range(controllers) }

-----------------------------------------------------------------------------
(* ScreenResources *)

\* first index of videoController in avail, 0 when absent
IndexOf(avail, videoController) ==
    IF \E i \in DOMAIN avail : avail[i] = videoController
    THEN CHOOSE i \in DOMAIN avail :
            /\ avail[i] = videoController
            /\ \A j \in 1..(i - 1) : avail[j] # videoController
    ELSE 0

\* markControllerAsBusy leaving the controller available
markControllerAsBusyKeeps(avail, videoController) == avail

markControllerAsBusy(avail, videoController) ==
    IF IndexOf(avail, videoController) = 0
    THEN avail
    ELSE RemoveAt(avail, IndexOf(avail, videoController))

releaseController(avail, videoController) == Append(avail, videoController)

\* requestController returning the back of the vector instead of the front
requestControllerRetBack(avail) == IF Len(avail) = 0 THEN None ELSE avail[Len(avail)]

\* the value requestController returns
requestControllerRet(avail) == IF Len(avail) = 0 THEN None ELSE avail[1]

\* requestController erasing the back of the vector instead of the front
requestControllerAvailPopBack(avail) ==
    IF Len(avail) = 0 THEN avail ELSE SubSeq(avail, 1, Len(avail) - 1)

\* the availability vector requestController leaves
requestControllerAvail(avail) == IF Len(avail) = 0 THEN avail ELSE Tail(avail)

-----------------------------------------------------------------------------
(* Monitor *)

\* a Monitor as its member initialisers leave it
DefaultMonitor ==
    [ videoOutput |-> None,
      videoOutputInfo |-> NullOutputInfo,
      videoController |-> None,
      videoControllerInfo |-> NullCrtcInfo,
      videoModeInfo |-> 0,
      leftMonitor |-> 0, rightMonitor |-> 0, topMonitor |-> 0, bottomMonitor |-> 0,
      isPrimary |-> FALSE,
      limitsCalculated |-> FALSE,
      xAxisMaxHeight |-> 0, yAxisMaxWidth |-> 0,
      xAxisMaxHeightmm |-> 0, yAxisMaxWidthmm |-> 0,
      screenWidth |-> 0, screenHeight |-> 0,
      screenWidthMillimeters |-> 0, screenHeightMillimeters |-> 0 ]

\* Monitor::Monitor: the new Monitor and the availability vector it leaves
MonitorCtor(videoOutput, avail, outputInfo, crtcInfo) ==
    LET m0 == [DefaultMonitor EXCEPT !.videoOutput = videoOutput,
                                     !.videoOutputInfo = outputInfo]
        m1 == [m0 EXCEPT !.videoController = outputInfo.crtc,
                         !.videoControllerInfo = crtcInfo]
        busy == markControllerAsBusy(avail, outputInfo.crtc)
    IN  IF outputInfo.null \/ outputInfo.crtc = None
        THEN [mon |-> m0, avail |-> avail]
        ELSE IF crtcInfo.null \/ crtcInfo.mode = None
        THEN [mon |-> m1, avail |-> busy]
        ELSE [mon |-> [m1 EXCEPT !.videoModeInfo = FindMode(crtcInfo.mode)], avail |-> busy]

\* the loop of getMonitors over outputs k..Len(videoOutputs)
RECURSIVE BuildMonitors(_, _, _, _, _)
BuildMonitors(k, avail, built, outputInfos, crtcInfos) ==
    IF k > Len(videoOutputs)
    THEN [monitors |-> built, avail |-> avail]
    ELSE LET r == MonitorCtor(videoOutputs[k], avail, outputInfos[k], crtcInfos[k])
         IN  BuildMonitors(k + 1, r.avail, Append(built, r.mon), outputInfos, crtcInfos)

\* Monitor::isOff, for a Monitor whose controller info is not null when it has a controller
isOff(mon) ==
    IF mon.videoController = None THEN TRUE ELSE mon.videoControllerInfo.mode = None

\* Monitor::isOff reads the mode through a null controller info: the Monitor has a
\* controller whose XRRGetCrtcInfo query returned nothing
isOffInvalid(mon) == mon.videoController # None /\ mon.videoControllerInfo.null

\* Monitor::isOff on any Monitor; `stale` is what the comparison with None gives on the
\* invalid read when that read does not trap
isOffRead(mon, stale) == IF isOffInvalid(mon) THEN stale ELSE isOff(mon)

\* getPosition without the test for a null controller info
getPositionUnchecked(mon) == <<mon.videoControllerInfo.x, mon.videoControllerInfo.y>>

\* Monitor::getPosition
getPosition(mon) ==
    IF mon.videoControllerInfo.null
    THEN <<-1, -1>>
    ELSE <<mon.videoControllerInfo.x, mon.videoControllerInfo.y>>

\* Monitor::setPosition
setPosition(mon, position) ==
    IF mon.videoControllerInfo.null
    THEN mon
    ELSE [mon EXCEPT !.videoControllerInfo.x = position[1],
                     !.videoControllerInfo.y = position[2]]

\* turnOff forgetting the mode info only, leaving the controller's mode set
turnOffModeInfoOnly(mon) ==
    IF mon.videoControllerInfo.null THEN mon ELSE [mon EXCEPT !.videoModeInfo = 0]

\* Monitor::turnOff
turnOff(mon) ==
    IF mon.videoControllerInfo.null
    THEN mon
    ELSE [mon EXCEPT !.videoControllerInfo.mode = None, !.videoModeInfo = 0]

\* Monitor::setController
setController(mon, controller, crtcInfo) ==
    [mon EXCEPT !.videoController = controller, !.videoControllerInfo = crtcInfo]

\* release forgetting to drop the controller info
releaseKeepsInfo(mon) == [mon EXCEPT !.videoController = None, !.videoModeInfo = 0]

\* Monitor::release, the Monitor it leaves
release(mon) ==
    [mon EXCEPT !.videoControllerInfo = NullCrtcInfo,
                !.videoController = None,
                !.videoModeInfo = 0]

\* Monitor::release, the availability vector it leaves
releaseAvail(mon, avail) ==
    IF mon.videoController # None THEN releaseController(avail, mon.videoController) ELSE avail

-----------------------------------------------------------------------------
(* Construction *)

\* ScreenResources::ScreenResources: the snapshot holds ncrtc controllers and noutput
\* outputs (none of either when the resources query fails); every controller is available
Init ==
    /\ \E ncrtc \in 0..NumControllers : controllers = [i \in 1..ncrtc |-> i]
    /\ \E noutput \in 0..NumOutputs : videoOutputs = [i \in 1..noutput |-> i]
    /\ availableControllers = controllers
    /\ monitors = << >>
    /\ status = "ok"
    /\ call = [op |-> "new", m |-> 0, ret |-> << >>]
    /\ hist = << >>

Monitors == DOMAIN monitors

-----------------------------------------------------------------------------
(* Operations on the pool and on a Monitor *)

\* ScreenResources::getMonitors
GetMonitors ==
    /\ status = "ok"
    /\ IF Len(monitors) # 0
       THEN UNCHANGED <<monitors, availableControllers>>
       ELSE \E outputInfos \in [DOMAIN videoOutputs -> UNION { OutputInfoAnswers(o) : o \in DOMAIN videoOutputs }],
               crtcInfos \in [DOMAIN videoOutputs -> CrtcInfoAnswers] :
               /\ \A o \in DOMAIN videoOutputs : outputInfos[o] \in OutputInfoAnswers(videoOutputs[o])
               /\ \A o \in DOMAIN videoOutputs :
                     (outputInfos[o].null \/ outputInfos[o].crtc = None) => crtcInfos[o] = NullCrtcInfo
               /\ LET r == BuildMonitors(1, availableControllers, << >>, outputInfos, crtcInfos)
                  IN  /\ monitors' = r.monitors
                      /\ availableControllers' = r.avail
    /\ call' = [op |-> "getMonitors", m |-> 0, ret |-> <<Len(monitors')>>]
    /\ UNCHANGED <<controllers, videoOutputs, status, hist>>

\* reconfigure without the test for the null sentinel
ReconfigureUnchecked(m) ==
    /\ status = "ok"
    /\ m \in Monitors
    /\ \E crtcInfo \in CrtcInfoAnswers :
         /\ availableControllers' = requestControllerAvail(availableControllers)
         /\ monitors' = [monitors EXCEPT ![m] =
                 setController(@, requestControllerRet(availableControllers), crtcInfo)]
         /\ call' = [op |-> "reconfigure", m |-> m, ret |-> <<1>>]
    /\ UNCHANGED <<controllers, videoOutputs, status, hist>>

\* Monitor::reconfigure
Reconfigure(m) ==
    /\ status = "ok"
    /\ m \in Monitors
    /\ LET controller == requestControllerRet(availableControllers)
       IN  IF controller = None
           THEN /\ call' = [op |-> "reconfigure", m |-> m, ret |-> <<0>>]
                /\ availableControllers' = requestControllerAvail(availableControllers)
                /\ UNCHANGED monitors
           ELSE \E crtcInfo \in CrtcInfoAnswers :
                /\ availableControllers' = requestControllerAvail(availableControllers)
                /\ monitors' = [monitors EXCEPT ![m] = setController(@, controller, crtcInfo)]
                /\ call' = [op |-> "reconfigure", m |-> m, ret |-> <<1>>]
    /\ UNCHANGED <<controllers, videoOutputs, status, hist>>

\* Monitor::release
Release(m) ==
    /\ status = "ok"
    /\ m \in Monitors
    /\ availableControllers' = releaseAvail(monitors[m], availableControllers)
    /\ monitors' = [monitors EXCEPT ![m] = release(@)]
    /\ call' = [op |-> "release", m |-> m, ret |-> << >>]
    /\ UNCHANGED <<controllers, videoOutputs, status, hist>>

\* Monitor::turnOff
TurnOff(m) ==
    /\ status = "ok"
    /\ m \in Monitors
    /\ monitors' = [monitors EXCEPT ![m] = turnOff(@)]
    /\ call' = [op |-> "turnOff", m |-> m, ret |-> << >>]
    /\ UNCHANGED <<controllers, videoOutputs, availableControllers, status, hist>>

\* Monitor::getPosition
GetPosition(m) ==
    /\ status = "ok"
    /\ m \in Monitors
    /\ call' = [op |-> "getPosition", m |-> m, ret |-> getPosition(monitors[m])]
    /\ UNCHANGED <<controllers, videoOutputs, availableControllers, monitors, status, hist>>

\* Monitor::setPosition
SetPosition(m, position) ==
    /\ status = "ok"
    /\ m \in Monitors
    /\ monitors' = [monitors EXCEPT ![m] = setPosition(@, position)]
    /\ call' = [op |-> "setPosition", m |-> m, ret |-> << >>]
    /\ UNCHANGED <<controllers, videoOutputs, availableControllers, status, hist>>

\* what an invalid read can yield when it does not trap
Garbage == {65535}

\* Monitor::setOutputMode up to its first store: the catalog lookup
setOutputModeLookup(mon, mode) == [mon EXCEPT !.videoModeInfo = FindMode(mode)]

\* Monitor::setOutputMode, the three stores into the controller info, with `height` the
\* value read through videoModeInfo
setOutputModeStores(mon, mode, height) ==
    [mon EXCEPT !.videoControllerInfo.mode = mode,
                !.videoControllerInfo.height = height,
                !.videoControllerInfo.width = mon.videoControllerInfo.width]

\* Monitor::setOutputMode.  A store through a null videoControllerInfo, or the read of
\* height through a null videoModeInfo, is an invalid access: it traps, or the build
\* lets execution continue (the store dropped, the read yielding an arbitrary value).
SetOutputMode(m, mode) ==
    /\ status = "ok"
    /\ m \in Monitors
    /\ LET looked == setOutputModeLookup(monitors[m], mode)
       IN  IF looked.videoControllerInfo.null
           THEN /\ monitors' = [monitors EXCEPT ![m] = looked]
                /\ status' \in {"crashed", "ok"}
           ELSE IF looked.videoModeInfo = 0
           THEN \/ /\ monitors' = [monitors EXCEPT ![m].videoModeInfo = 0,
                                                   ![m].videoControllerInfo.mode = mode]
                   /\ status' = "crashed"
                \/ /\ \E height \in Garbage :
                        monitors' = [monitors EXCEPT ![m] = setOutputModeStores(looked, mode, height)]
                   /\ status' = "ok"
           ELSE /\ monitors' = [monitors EXCEPT ![m] =
                        setOutputModeStores(looked, mode, videoOutputModes[looked.videoModeInfo].height)]
                /\ status' = "ok"
    /\ call' = [op |-> "setOutputMode", m |-> m, ret |-> << >>]
    /\ UNCHANGED <<controllers, videoOutputs, availableControllers, hist>>

-----------------------------------------------------------------------------
(* The Monitor life cycle: discovery, lease, release, mode and position *)

Next ==
    \/ GetMonitors
    \/ \E m \in 1..NumOutputs : Reconfigure(m)
    \/ \E m \in 1..NumOutputs : Release(m)
    \/ \E m \in 1..NumOutputs : TurnOff(m)
    \/ \E m \in 1..NumOutputs, mode \in ModeIds : SetOutputMode(m, mode)

Spec == Init /\ [][Next]_vars

-----------------------------------------------------------------------------
(* The Monitor life cycle with the position accessors *)

NextPosition ==
    \/ GetMonitors
    \/ \E m \in 1..NumOutputs : Reconfigure(m)
    \/ \E m \in 1..NumOutputs : Release(m)
    \/ \E m \in 1..NumOutputs : TurnOff(m)
    \/ \E m \in 1..NumOutputs : GetPosition(m)
    \/ \E m \in 1..NumOutputs, position \in Points : SetPosition(m, position)

SpecPosition == Init /\ [][NextPosition]_vars

-----------------------------------------------------------------------------
(* The pool called directly: requestController, releaseController, markControllerAsBusy *)

PoolCall(op, arg, ret, avail) ==
    /\ status = "ok"
    /\ Len(hist) < MaxHist
    /\ availableControllers' = avail
    /\ hist' = Append(hist, [op |-> op, arg |-> arg, ret |-> ret,
                             before |-> availableControllers, after |-> avail])
    /\ call' = [op |-> op, m |-> 0, ret |-> <<ret>>]
    /\ UNCHANGED <<controllers, videoOutputs, monitors, status>>

RequestController ==
    PoolCall("requestController", None,
             requestControllerRet(availableControllers),
             requestControllerAvail(availableControllers))

ReleaseController(c) ==
    /\ Len(availableControllers) < MaxAvail
    /\ PoolCall("releaseController", c, None, releaseController(availableControllers, c))

MarkControllerAsBusy(c) ==
    PoolCall("markControllerAsBusy", c, None, markControllerAsBusy(availableControllers, c))

NextPool ==
    \/ RequestController
    \/ \E c \in Range(controllers) : ReleaseController(c)
    \/ \E c \in Range(controllers) : MarkControllerAsBusy(c)

SpecPool == Init /\ [][NextPool]_vars

-----------------------------------------------------------------------------
(* Layout: the four wings of an anchor and the canvas limits *)

Dirs == {"left", "right", "top", "bottom"}

\* the neighbour pointer of `mon` in direction `dir`
Link(mon, dir) ==
    CASE dir = "left"   -> mon.leftMonitor
      [] dir = "right"  -> mon.rightMonitor
      [] dir = "top"    -> mon.topMonitor
      [] dir = "bottom" -> mon.bottomMonitor

\* setLeftMonitor / setRightMonitor / setTopMonitor / setBottomMonitor
setNeighbour(mon, dir, monitor) ==
    CASE dir = "left"   -> [mon EXCEPT !.leftMonitor = monitor]
      [] dir = "right"  -> [mon EXCEPT !.rightMonitor = monitor]
      [] dir = "top"    -> [mon EXCEPT !.topMonitor = monitor]
      [] dir = "bottom" -> [mon EXCEPT !.bottomMonitor = monitor]

\* the Monitors a loop `while (ptr != nullptr) { ...; ptr = ptr-><dir>Monitor; }` visits,
\* cut after `fuel` of them
RECURSIVE Walk(_, _, _, _)
Walk(mons, ptr, dir, fuel) ==
    IF ptr = 0 \/ fuel = 0
    THEN << >>
    ELSE <<ptr>> \o Walk(mons, Link(mons[ptr], dir), dir, fuel - 1)

\* the wing of anchor m in direction dir; a walk longer than the number of Monitors
\* has met a Monitor twice and never ends
Wing(mons, m, dir) == Walk(mons, Link(mons[m], dir), dir, Len(mons) + 1)

Endless(mons, m, dir) == Len(Wing(mons, m, dir)) > Len(mons)

\* the mode info and output info a layout loop reads through
Readable(mon) == mon.videoModeInfo # 0 /\ ~mon.videoOutputInfo.null

ModeWidth(mon) == videoOutputModes[mon.videoModeInfo].width

ModeHeight(mon) == videoOutputModes[mon.videoModeInfo].height

\* one pass of the body of a calculateLimits loop along the X axis (also the central
\* block, with ptr = this)
LimitsXStep(this, ptr) ==
    [this EXCEPT
        !.xAxisMaxHeight =
            IF ModeHeight(ptr) > this.xAxisMaxHeight THEN ModeHeight(ptr) ELSE @,
        !.xAxisMaxHeightmm =
            IF ptr.videoOutputInfo.mm_height > this.xAxisMaxHeightmm
            THEN ptr.videoOutputInfo.mm_height ELSE @,
        !.screenWidth = @ + ModeWidth(ptr),
        !.screenWidthMillimeters = @ + ptr.videoOutputInfo.mm_width]

\* one pass of the body of a calculateLimits loop along the Y axis
LimitsYStep(this, ptr) ==
    [this EXCEPT
        !.yAxisMaxWidth =
            IF ModeWidth(ptr) > this.yAxisMaxWidth THEN ModeWidth(ptr) ELSE @,
        !.yAxisMaxWidthmm =
            IF ptr.videoOutputInfo.mm_width > this.yAxisMaxWidthmm
            THEN ptr.videoOutputInfo.mm_width ELSE @,
        !.screenHeight = @ + ModeHeight(ptr),
        !.screenHeightMillimeters = @ + ptr.videoOutputInfo.mm_height]

RECURSIVE LimitsXLoop(_, _, _)
LimitsXLoop(mons, this, wing) ==
    IF wing = << >> THEN this
    ELSE LimitsXLoop(mons, LimitsXStep(this, mons[wing[1]]), Tail(wing))

RECURSIVE LimitsYLoop(_, _, _)
LimitsYLoop(mons, this, wing) ==
    IF wing = << >> THEN this
    ELSE LimitsYLoop(mons, LimitsYStep(this, mons[wing[1]]), Tail(wing))

\* calculateLimits ending without normalising the totals against the maxima
LimitsNormalizeTotalsOnly(this) == [this EXCEPT !.limitsCalculated = TRUE]

\* the last block of calculateLimits: the limits normalised against the maxima
LimitsNormalize(this) ==
    [this EXCEPT
        !.screenWidth = IF this.yAxisMaxWidth > @ THEN this.yAxisMaxWidth ELSE @,
        !.screenWidthMillimeters = IF this.yAxisMaxWidthmm > @ THEN this.yAxisMaxWidthmm ELSE @,
        !.screenHeight = IF this.xAxisMaxHeight > @ THEN this.xAxisMaxHeight ELSE @,
        !.screenHeightMillimeters = IF this.xAxisMaxHeightmm > @ THEN this.xAxisMaxHeightmm ELSE @,
        !.limitsCalculated = TRUE]

\* Monitor::calculateLimits on anchor m when every loop ends and every read is valid
calculateLimits(mons, m) ==
    LET a == LimitsXLoop(mons, mons[m], Wing(mons, m, "left"))
        b == LimitsXStep(a, mons[m])
        c == LimitsXLoop(mons, b, Wing(mons, m, "right"))
        d == LimitsYLoop(mons, c, Wing(mons, m, "top"))
        e == LimitsYStep(d, mons[m])
        f == LimitsYLoop(mons, e, Wing(mons, m, "bottom"))
    IN  LimitsNormalize(f)

\* the Monitors calculateLimits reads through, in order, up to the end of the first
\* loop that never ends
LimitsReads(mons, m) ==
    LET wing(dir) == Wing(mons, m, dir)
    IN  IF Endless(mons, m, "left") THEN wing("left")
        ELSE IF Endless(mons, m, "right") THEN wing("left") \o <<m>> \o wing("right")
        ELSE IF Endless(mons, m, "top")
             THEN wing("left") \o <<m>> \o wing("right") \o wing("top")
        ELSE wing("left") \o <<m>> \o wing("right") \o wing("top") \o <<m>> \o wing("bottom")

\* calculateLimits reads through a null mode info or output info
LimitsInvalid(mons, m) ==
    LET reads == LimitsReads(mons, m)
    IN  \E i \in DOMAIN reads : ~Readable(mons[reads[i]])

\* calculateLimits never returns: one of its loops follows a cycle of neighbour links
LimitsEndless(mons, m) == \E dir \in Dirs : Endless(mons, m, dir)

\* the limits an invalid read leaves when it does not trap
LimitsGarbage(this) ==
    [this EXCEPT !.xAxisMaxHeight = 65535, !.yAxisMaxWidth = 65535,
                 !.xAxisMaxHeightmm = 65535, !.yAxisMaxWidthmm = 65535,
                 !.screenWidth = 65535, !.screenHeight = 65535,
                 !.screenWidthMillimeters = 65535, !.screenHeightMillimeters = 65535,
                 !.limitsCalculated = TRUE]

\* the canvas of anchor m: width and height in pixels and in millimeters
Canvas(mon) ==
    <<mon.screenWidth, mon.screenHeight, mon.screenWidthMillimeters, mon.screenHeightMillimeters>>

\* Monitor::calculateLimits
CalculateLimits(m) ==
    /\ status = "ok"
    /\ m \in Monitors
    /\ Len(hist) < MaxLayoutCalls
    /\ IF LimitsInvalid(monitors, m)
       THEN \/ status' = "crashed" /\ UNCHANGED monitors
            \/ status' = "ok" /\ monitors' = [monitors EXCEPT ![m] = LimitsGarbage(@)]
       ELSE IF LimitsEndless(monitors, m)
       THEN status' = "hung" /\ UNCHANGED monitors
       ELSE /\ status' = "ok"
            /\ monitors' = [monitors EXCEPT ![m] = calculateLimits(monitors, m)]
    /\ call' = [op |-> "calculateLimits", m |-> m, ret |-> << >>]
    /\ hist' = Append(hist, [op |-> "calculateLimits", m |-> m])
    /\ UNCHANGED <<controllers, videoOutputs, availableControllers>>

\* a Monitor found at discovery on its own controller, showing `mode` (None: dark)
DiscoveredMonitor(output, mode) ==
    MonitorCtor(output, << >>,
                [null |-> FALSE, crtc |-> output,
                 mm_width |-> 300 + 40 * output, mm_height |-> 200 + 10 * output],
                CrtcInfoOfMode(mode)).mon

\* a call of one of the four neighbour setters, or none
SetterCalls == {<<0, "left", 0>>} \cup ((1..NumLayoutMonitors) \X Dirs \X (1..NumLayoutMonitors))

\* the Monitors after the setter calls calls[k], calls[k + 1], ...
RECURSIVE ApplySetters(_, _, _)
ApplySetters(mons, calls, k) ==
    IF k > Len(calls) THEN mons
    ELSE IF calls[k][1] = 0 THEN ApplySetters(mons, calls, k + 1)
    ELSE ApplySetters([mons EXCEPT ![calls[k][1]] = setNeighbour(@, calls[k][2], calls[k][3])],
                      calls, k + 1)

\* every output on its own controller, each showing a catalog mode or dark, and the
\* caller has linked them with at most MaxLinks setter calls
InitLayout ==
    /\ controllers = [i \in 1..NumLayoutMonitors |-> i]
    /\ videoOutputs = [i \in 1..NumLayoutMonitors |-> i]
    /\ availableControllers = << >>
    /\ \E modes \in [1..NumLayoutMonitors -> {None} \cup DOMAIN videoOutputModes],
          calls \in [1..MaxLinks -> SetterCalls] :
            monitors = ApplySetters([i \in 1..NumLayoutMonitors |-> DiscoveredMonitor(i, modes[i])],
                                    calls, 1)
    /\ status = "ok"
    /\ call = [op |-> "new", m |-> 0, ret |-> << >>]
    /\ hist = << >>

NextLayout ==
    \/ \E m \in 1..NumLayoutMonitors : CalculateLimits(m)

SpecLayout == InitLayout /\ [][NextLayout]_vars

-----------------------------------------------------------------------------
(* Relative positions *)

\* ptr->videoModeInfo->width; a read through a null mode info that does not trap
\* yields garbage
ReadWidth(mon) == IF mon.videoModeInfo = 0 THEN 65535 ELSE ModeWidth(mon)

\* ptr->videoModeInfo->height, likewise
ReadHeight(mon) == IF mon.videoModeInfo = 0 THEN 65535 ELSE ModeHeight(mon)

\* the accumulation loops of getPrimaryRelativePosition
RECURSIVE WingWidth(_, _)
WingWidth(mons, wing) ==
    IF wing = << >> THEN 0 ELSE ReadWidth(mons[wing[1]]) + WingWidth(mons, Tail(wing))

RECURSIVE WingHeight(_, _)
WingHeight(mons, wing) ==
    IF wing = << >> THEN 0 ELSE ReadHeight(mons[wing[1]]) + WingHeight(mons, Tail(wing))

\* getPrimaryRelativePosition leaving the anchor at the origin
primaryRootAtOrigin(mons, m) == <<0, 0>>

\* Monitor::getPrimaryRelativePosition, the point it returns: the width of the left
\* wing and the height of the top wing
primaryRoot(mons, m) ==
    <<WingWidth(mons, Wing(mons, m, "left")), WingHeight(mons, Wing(mons, m, "top"))>>

\* Monitor::getPrimaryRelativePosition, the Monitors it leaves
getPrimaryRelativePosition(mons, m) ==
    [mons EXCEPT ![m] = setPosition(@, primaryRoot(mons, m))]

\* the left-wing loop of calculateRelativePositions
RECURSIVE PlaceLeft(_, _, _, _)
PlaceLeft(mons, root, position, wing) ==
    IF wing = << >> THEN mons
    ELSE LET p == <<root[1] - ReadWidth(mons[wing[1]]), position[2]>>
         IN  PlaceLeft([mons EXCEPT ![wing[1]] = setPosition(@, p)], root, p, Tail(wing))

\* the right-wing loop
RECURSIVE PlaceRight(_, _, _)
PlaceRight(mons, position, wing) ==
    IF wing = << >> THEN mons
    ELSE PlaceRight([mons EXCEPT ![wing[1]] = setPosition(@, position)],
                    <<position[1] + ReadWidth(mons[wing[1]]), position[2]>>, Tail(wing))

\* the top-wing loop
RECURSIVE PlaceTop(_, _, _)
PlaceTop(mons, position, wing) ==
    IF wing = << >> THEN mons
    ELSE LET p == <<position[1], position[2] - ReadHeight(mons[wing[1]])>>
         IN  PlaceTop([mons EXCEPT ![wing[1]] = setPosition(@, p)], p, Tail(wing))

\* the bottom-wing loop
RECURSIVE PlaceBottom(_, _, _)
PlaceBottom(mons, position, wing) ==
    IF wing = << >> THEN mons
    ELSE PlaceBottom([mons EXCEPT ![wing[1]] = setPosition(@, position)],
                     <<position[1], position[2] + ReadHeight(mons[wing[1]])>>, Tail(wing))

\* Monitor::calculateRelativePositions on anchor m when every loop ends
calculateRelativePositions(mons, m) ==
    LET root == primaryRoot(mons, m)
        a == getPrimaryRelativePosition(mons, m)
        b == PlaceLeft(a, root, root, Wing(mons, m, "left"))
        c == PlaceRight(b, <<root[1] + ReadWidth(mons[m]), root[2]>>, Wing(mons, m, "right"))
        d == PlaceTop(c, root, Wing(mons, m, "top"))
    IN  PlaceBottom(d, <<root[1], root[2] + ReadHeight(mons[m])>>, Wing(mons, m, "bottom"))

\* the Monitors whose mode info calculateRelativePositions reads, up to the end of the
\* first loop that never ends (the loops run left, top, left, right, top, bottom)
PositionsReads(mons, m) ==
    LET wing(dir) == Wing(mons, m, dir)
    IN  IF Endless(mons, m, "left") THEN wing("left")
        ELSE IF Endless(mons, m, "top") THEN wing("left") \o wing("top")
        ELSE IF Endless(mons, m, "right")
             THEN wing("left") \o wing("top") \o <<m>> \o wing("right")
        ELSE wing("left") \o wing("top") \o <<m>> \o wing("right") \o wing("bottom")

\* calculateRelativePositions reads through a null mode info
PositionsInvalid(mons, m) ==
    LET reads == PositionsReads(mons, m)
    IN  \E i \in DOMAIN reads : mons[reads[i]].videoModeInfo = 0

\* calculateRelativePositions never returns
PositionsEndless(mons, m) == \E dir \in Dirs : Endless(mons, m, dir)

\* Monitor::calculateRelativePositions
CalculateRelativePositions(m) ==
    /\ status = "ok"
    /\ m \in Monitors
    /\ Len(hist) < MaxLayoutCalls
    /\ \/ /\ PositionsInvalid(monitors, m)
          /\ status' = "crashed"
          /\ UNCHANGED monitors
       \/ /\ PositionsEndless(monitors, m)
          /\ status' = "hung"
          /\ UNCHANGED monitors
       \/ /\ ~PositionsEndless(monitors, m)
          /\ status' = "ok"
          /\ monitors' = calculateRelativePositions(monitors, m)
    /\ call' = [op |-> "calculateRelativePositions", m |-> m, ret |-> << >>]
    /\ hist' = Append(hist, [op |-> "calculateRelativePositions", m |-> m])
    /\ UNCHANGED <<controllers, videoOutputs, availableControllers>>

NextPlace ==
    \/ \E m \in 1..NumLayoutMonitors : CalculateRelativePositions(m)

SpecPlace == InitLayout /\ [][NextPlace]_vars

\* calculateLimits on one anchor, then calculateRelativePositions on an anchor: the two
\* steps applyConfiguration takes before it grabs the server
NextCanvas ==
    \/ \E m \in 1..NumLayoutMonitors : hist = << >> /\ CalculateLimits(m)
    \/ \E m \in 1..NumLayoutMonitors : Len(hist) = 1 /\ CalculateRelativePositions(m)

SpecCanvas == InitLayout /\ [][NextCanvas]_vars

-----------------------------------------------------------------------------
(* applyConfiguration: the requests sent to the X server (a build without DRYRUN) *)

\* Monitor::applyConfiguration(XServer*, Monitor*): the XRRSetCrtcConfig request that
\* commits one Monitor: controller, x, y, mode and the outputs driven (none when the
\* mode is None).  Through a null controller info the three reads are invalid and, when
\* they do not trap, yield garbage.
Commit(mon) ==
    IF mon.videoControllerInfo.null
    THEN <<"XRRSetCrtcConfig", mon.videoController, 65535, 65535, 65535, <<mon.videoOutput>>>>
    ELSE <<"XRRSetCrtcConfig", mon.videoController,
           mon.videoControllerInfo.x, mon.videoControllerInfo.y, mon.videoControllerInfo.mode,
           IF mon.videoControllerInfo.mode = None THEN << >> ELSE <<mon.videoOutput>>>>

\* the Monitors the four commit loops of applyConfiguration go through, in order
ChainTargets(mons, m) ==
    Wing(mons, m, "left") \o Wing(mons, m, "right") \o Wing(mons, m, "top") \o Wing(mons, m, "bottom")

\* the first of `targets` whose commit reads through a null controller info, 0 when none
FirstNullInfo(mons, targets) ==
    IF \E i \in DOMAIN targets : mons[targets[i]].videoControllerInfo.null
    THEN CHOOSE i \in DOMAIN targets :
            /\ mons[targets[i]].videoControllerInfo.null
            /\ \A j \in 1..(i - 1) : ~mons[targets[j]].videoControllerInfo.null
    ELSE 0

\* applyConfiguration sending the primary marker after the four commit loops
applyXCallsPrimaryLast(mons, m, trap) ==
    LET chain == ChainTargets(mons, m)
        bad == FirstNullInfo(mons, chain)
        sent == IF trap /\ bad # 0 THEN SubSeq(chain, 1, bad - 1) ELSE chain
        head == << <<"XGrabServer">>, Commit(mons[m]) >>
                    \o [ i \in DOMAIN sent |-> Commit(mons[sent[i]]) ]
    IN  IF trap /\ bad # 0
        THEN head
        ELSE head
                 \o (IF mons[m].isPrimary
                     THEN << <<"XRRSetOutputPrimary", mons[m].videoOutput>> >>
                     ELSE << >>)
                 \o << <<"XRRSetScreenSize">> \o Canvas(mons[m]),
                       <<"XUngrabServer">>, <<"XSync">> >>

\* applyConfiguration committing the anchor alone
applyXCallsAnchorOnly(mons, m, trap) ==
    << <<"XGrabServer">>, Commit(mons[m]) >>
        \o (IF mons[m].isPrimary
            THEN << <<"XRRSetOutputPrimary", mons[m].videoOutput>> >>
            ELSE << >>)
        \o << <<"XRRSetScreenSize">> \o Canvas(mons[m]), <<"XUngrabServer">>, <<"XSync">> >>

\* applyConfiguration releasing the grab before it sets the canvas size
applyXCallsUngrabEarly(mons, m, trap) ==
    LET chain == ChainTargets(mons, m)
    IN  << <<"XGrabServer">>, Commit(mons[m]) >>
            \o [ i \in DOMAIN chain |-> Commit(mons[chain[i]]) ]
            \o << <<"XUngrabServer">>, <<"XRRSetScreenSize">> \o Canvas(mons[m]), <<"XSync">> >>

\* Monitor::applyConfiguration from XGrabServer on, for an anchor that is not off, its
\* limits and positions calculated: the requests sent, up to the first invalid read
\* when invalid reads trap
applyXCalls(mons, m, trap) ==
    LET chain == ChainTargets(mons, m)
        bad == FirstNullInfo(mons, chain)
        sent == IF trap /\ bad # 0 THEN SubSeq(chain, 1, bad - 1) ELSE chain
        head == << <<"XGrabServer">>, Commit(mons[m]) >>
                    \o (IF mons[m].isPrimary
                        THEN << <<"XRRSetOutputPrimary", mons[m].videoOutput>> >>
                        ELSE << >>)
                    \o [ i \in DOMAIN sent |-> Commit(mons[sent[i]]) ]
    IN  IF trap /\ bad # 0
        THEN head
        ELSE head \o << <<"XRRSetScreenSize">> \o Canvas(mons[m]),
                        <<"XUngrabServer">>, <<"XSync">> >>

\* applyConfiguration calculating the limits on every call
limitsNeededAlways(mon) == TRUE

\* the test that guards calculateLimits in applyConfiguration
limitsNeeded(mon) == ~mon.limitsCalculated

\* Monitor::applyConfiguration on anchor m: the status, the Monitors and the requests
\* it leaves.  `trap` says whether an invalid read traps or goes on with garbage,
\* `stale` what isOff makes of an invalid read that does not trap.
applyConfiguration(mons, m, trap, stale) ==
    IF isOffInvalid(mons[m]) /\ trap
    THEN [status |-> "crashed", monitors |-> mons, xcalls |-> << >>]
    ELSE IF isOffRead(mons[m], stale)
    THEN IF mons[m].videoControllerInfo.null /\ trap
         THEN [status |-> "crashed", monitors |-> mons, xcalls |-> << >>]
         ELSE [status |-> "ok", monitors |-> mons, xcalls |-> << Commit(mons[m]) >>]
    ELSE IF limitsNeeded(mons[m]) /\ LimitsInvalid(mons, m) /\ trap
    THEN [status |-> "crashed", monitors |-> mons, xcalls |-> << >>]
    ELSE IF limitsNeeded(mons[m]) /\ LimitsEndless(mons, m)
    THEN [status |-> "hung", monitors |-> mons, xcalls |-> << >>]
    ELSE LET mons1 == IF ~limitsNeeded(mons[m]) THEN mons
                      ELSE IF LimitsInvalid(mons, m)
                           THEN [mons EXCEPT ![m] = LimitsGarbage(@)]
                           ELSE [mons EXCEPT ![m] = calculateLimits(mons, m)]
         IN  IF PositionsInvalid(mons1, m) /\ trap
             THEN [status |-> "crashed", monitors |-> mons1, xcalls |-> << >>]
             ELSE IF PositionsEndless(mons1, m)
             THEN [status |-> "hung", monitors |-> mons1, xcalls |-> << >>]
             ELSE LET mons2 == calculateRelativePositions(mons1, m)
                  IN  [status |-> IF trap /\ FirstNullInfo(mons2, ChainTargets(mons2, m)) # 0
                                  THEN "crashed" ELSE "ok",
                       monitors |-> mons2,
                       xcalls |-> applyXCalls(mons2, m, trap)]

\* some Monitor holds a null pointer that applyConfiguration may read through; with
\* none, no read is invalid and `trap` makes no difference
HoldsNull(mons) ==
    \E k \in DOMAIN mons :
        \/ mons[k].videoModeInfo = 0
        \/ mons[k].videoControllerInfo.null
        \/ mons[k].videoOutputInfo.null

\* Monitor::applyConfiguration
ApplyConfiguration(m) ==
    /\ status = "ok"
    /\ m \in Monitors
    /\ Len(hist) < MaxApplyCalls
    /\ \E trap \in (IF HoldsNull(monitors) THEN BOOLEAN ELSE {FALSE}),
          stale \in (IF isOffInvalid(monitors[m]) THEN BOOLEAN ELSE {FALSE}) :
         LET r == applyConfiguration(monitors, m, trap, stale)
         IN  /\ status' = r.status
             /\ monitors' = r.monitors
             /\ hist' = Append(hist, [op |-> "applyConfiguration", m |-> m, xcalls |-> r.xcalls])
             /\ call' = [op |-> "applyConfiguration", m |-> m,
                         ret |-> IF r.status = "ok" THEN <<1>> ELSE << >>]
    /\ UNCHANGED <<controllers, videoOutputs, availableControllers>>

\* Monitor::setPrimary
setPrimary(mon, i) == [mon EXCEPT !.isPrimary = i]

\* Monitor::setPrimary called by the user of the library
SetPrimary(m, i) ==
    /\ status = "ok"
    /\ m \in Monitors
    /\ monitors' = [monitors EXCEPT ![m] = setPrimary(@, i)]
    /\ call' = [op |-> "setPrimary", m |-> m, ret |-> << >>]
    /\ UNCHANGED <<controllers, videoOutputs, availableControllers, status, hist>>

\* a Monitor found at discovery whose output drives no controller
IdleMonitor(output) ==
    MonitorCtor(output, << >>,
                [null |-> FALSE, crtc |-> None,
                 mm_width |-> 300 + 40 * output, mm_height |-> 200 + 10 * output],
                NullCrtcInfo).mon

\* every output on its own controller showing the first catalog mode or dark, or
\* driving no controller; the caller has marked at most one Monitor primary and linked
\* the Monitors with at most MaxLinks setter calls
InitApply ==
    /\ controllers = [i \in 1..NumLayoutMonitors |-> i]
    /\ videoOutputs = [i \in 1..NumLayoutMonitors |-> i]
    /\ \E modes \in [1..NumLayoutMonitors -> {None, videoOutputModes[1].id}],
          idle \in SUBSET (1..NumLayoutMonitors),
          primary \in 0..NumLayoutMonitors,
          calls \in [1..MaxLinks -> SetterCalls] :
            /\ \A i \in idle : modes[i] = None
            /\ availableControllers = SelectSeq(controllers, LAMBDA c : c \in idle)
            /\ monitors =
                 ApplySetters([i \in 1..NumLayoutMonitors |->
                                  setPrimary(IF i \in idle THEN IdleMonitor(i)
                                             ELSE DiscoveredMonitor(i, modes[i]),
                                             i = primary)],
                              calls, 1)
    /\ status = "ok"
    /\ call = [op |-> "new", m |-> 0, ret |-> << >>]
    /\ hist = << >>

\* one applyConfiguration call in a run
NextApply ==
    \/ \E m \in 1..NumLayoutMonitors : hist = << >> /\ ApplyConfiguration(m)

SpecApply == InitApply /\ [][NextApply]_vars

-----------------------------------------------------------------------------
(* applyConfiguration called again after the layout has changed *)

\* Monitor::setLeftMonitor / setRightMonitor / setTopMonitor / setBottomMonitor
SetNeighbour(m, dir, monitor) ==
    /\ status = "ok"
    /\ m \in Monitors
    /\ monitors' = [monitors EXCEPT ![m] = setNeighbour(@, dir, monitor)]
    /\ call' = [op |-> "setNeighbour", m |-> m, ret |-> << >>]
    /\ UNCHANGED <<controllers, videoOutputs, availableControllers, status, hist>>

\* every output on its own controller showing a catalog mode; the caller has linked the
\* Monitors with at most MaxReapplyLinks setter calls
InitReapply ==
    /\ controllers = [i \in 1..NumLayoutMonitors |-> i]
    /\ videoOutputs = [i \in 1..NumLayoutMonitors |-> i]
    /\ availableControllers = << >>
    /\ \E modes \in [1..NumLayoutMonitors -> DOMAIN videoOutputModes],
          calls \in [1..MaxReapplyLinks -> SetterCalls] :
            monitors = ApplySetters([i \in 1..NumLayoutMonitors |-> DiscoveredMonitor(i, modes[i])],
                                    calls, 1)
    /\ status = "ok"
    /\ call = [op |-> "new", m |-> 0, ret |-> << >>]
    /\ hist = << >>

\* the caller changes one link, one mode or one primary flag between two
\* applyConfiguration calls
BetweenApplies == call.op = "applyConfiguration" /\ Len(hist) < MaxApplyCalls

NextReapply ==
    \/ \E m \in 1..NumLayoutMonitors : ApplyConfiguration(m)
    \/ \E m \in 1..NumLayoutMonitors, dir \in Dirs, monitor \in 0..NumLayoutMonitors :
          BetweenApplies /\ SetNeighbour(m, dir, monitor)
    \/ \E m \in 1..NumLayoutMonitors, mode \in ModeIds :
          BetweenApplies /\ SetOutputMode(m, mode)
    \/ \E m \in 1..NumLayoutMonitors, i \in BOOLEAN :
          BetweenApplies /\ SetPrimary(m, i)

SpecReapply == InitReapply /\ [][NextReapply]_vars

-----------------------------------------------------------------------------
(* Monitors whose controller query or mode lookup found nothing *)

\* Monitor::isOff called by the user of the library
IsOff(m) ==
    /\ status = "ok"
    /\ m \in Monitors
    /\ \E trap \in (IF isOffInvalid(monitors[m]) THEN BOOLEAN ELSE {FALSE}),
          stale \in (IF isOffInvalid(monitors[m]) THEN BOOLEAN ELSE {FALSE}) :
            /\ status' = IF trap THEN "crashed" ELSE "ok"
            /\ call' = [op |-> "isOff", m |-> m,
                        ret |-> IF trap THEN << >> ELSE <<isOffRead(monitors[m], stale)>>]
    /\ UNCHANGED <<controllers, videoOutputs, availableControllers, monitors, hist>>

\* a call of one of the four neighbour setters among the discovered Monitors, or none
QuerySetterCalls ==
    {<<0, "left", 0>>} \cup ((1..NumQueryMonitors) \X Dirs \X (1..NumQueryMonitors))

\* getMonitors has built one Monitor per output, each output on its own controller and
\* one controller spare; XRRGetCrtcInfo answered each query with any of its answers
\* (none, dark, a catalog mode, a mode the catalog lacks); the caller has linked the
\* Monitors with at most MaxQueryLinks setter calls
InitQuery ==
    /\ controllers = [i \in 1..(NumQueryMonitors + 1) |-> i]
    /\ videoOutputs = [i \in 1..NumQueryMonitors |-> i]
    /\ \E crtcInfos \in [1..NumQueryMonitors -> CrtcInfoAnswers],
          calls \in [1..MaxQueryLinks -> QuerySetterCalls] :
            LET outputInfos == [o \in 1..NumQueryMonitors |->
                                   [null |-> FALSE, crtc |-> o,
                                    mm_width |-> 300 + 40 * o, mm_height |-> 200 + 10 * o]]
                r == BuildMonitors(1, controllers, << >>, outputInfos, crtcInfos)
            IN  /\ monitors = ApplySetters(r.monitors, calls, 1)
                /\ availableControllers = r.avail
    /\ status = "ok"
    /\ call = [op |-> "new", m |-> 0, ret |-> << >>]
    /\ hist = << >>

\* at most one reconfigure, any number of setPrimary calls, then one isOff or one
\* applyConfiguration
NextQuery ==
    \/ \E m \in 1..NumQueryMonitors : call.op = "new" /\ Reconfigure(m)
    \/ \E m \in 1..NumQueryMonitors, i \in BOOLEAN :
          call.op # "isOff" /\ hist = << >> /\ SetPrimary(m, i)
    \/ \E m \in 1..NumQueryMonitors : call.op # "isOff" /\ hist = << >> /\ IsOff(m)
    \/ \E m \in 1..NumQueryMonitors : call.op # "isOff" /\ hist = << >> /\ ApplyConfiguration(m)

SpecQuery == InitQuery /\ [][NextQuery]_vars

-----------------------------------------------------------------------------
(* Dock and PowerManager *)

\* what open / fstat / read find at IBM_DOCK_MODALIAS: no file; a failing fstat or
\* read; st_size bytes that are the dock's id; bytes that differ from the dock's id; or
\* fewer bytes than st_size (a sysfs attribute: st_size 4096) that are the dock's id or
\* a beginning of it, so that the buffer, terminated at st_size, holds uninitialised
\* bytes after them
ModaliasFiles == {"missing", "unreadable", "dock", "other", "short"}

\* what open / read find at IBM_DOCK_DOCKED: no file, a failing read, '1', '0', or an
\* empty file (read returns 0 and status[0] is compared uninitialised)
DockedFiles == {"missing", "unreadable", "1", "0", "empty"}

\* Dock::probe; `stale` is what strcmp gives when it runs into the uninitialised bytes
\* between the bytes read and the terminator at st_size
probe(modalias, stale) ==
    CASE modalias \in {"missing", "unreadable"} -> FALSE
      [] modalias = "short" -> stale
      [] OTHER -> modalias = "dock"

\* Dock::isDocked; `stale` is what the comparison gives on the uninitialised byte
isDocked(docked, stale) ==
    CASE docked \in {"missing", "unreadable"} -> FALSE
      [] docked = "empty" -> stale
      [] OTHER -> docked = "1"

\* how PowerManager::suspend ends: logind suspended, a D-Bus call failed, or the build
\* has no suspend mechanism (SYSTEMD undefined)
SuspendOutcomes == {"suspended", "failed", "unavailable"}

\* PowerManager::suspend: its return value and what it logs
suspend(outcome) ==
    [ret |-> outcome = "suspended",
     log |-> CASE outcome = "suspended" -> << >>
               [] outcome = "failed" -> <<"suspend failed">>
               [] OTHER -> <<"no suspend mechanism available">>]

\* the reasons handed to requestSuspend: the two enumerators and a value that is neither
SuspendReasons == {"SUSPEND_REASON_BUTTON", "SUSPEND_REASON_LID", "other"}

\* requestSuspend suspending whatever the reason and the dock
requestSuspendAlways(reason, present, docked, outcome) ==
    [ret |-> suspend(outcome).ret, suspends |-> 1, log |-> suspend(outcome).log]

\* PowerManager::requestSuspend, with `present` what dock.probe() returns and `docked`
\* what dock.isDocked() returns: the return value, the number of suspend() calls, the log
requestSuspend(reason, present, docked, outcome) ==
    CASE reason = "SUSPEND_REASON_BUTTON" ->
            [ret |-> suspend(outcome).ret, suspends |-> 1, log |-> suspend(outcome).log]
      [] reason = "SUSPEND_REASON_LID" ->
            IF ~present
            THEN [ret |-> FALSE, suspends |-> 0, log |-> <<"dock is not sane/present">>]
            ELSE IF ~docked
            THEN [ret |-> TRUE, suspends |-> 1, log |-> suspend(outcome).log]
            ELSE [ret |-> FALSE, suspends |-> 0, log |-> <<"ignoring lid event when docked">>]
      [] OTHER -> [ret |-> FALSE, suspends |-> 0, log |-> <<"invalid suspend reason">>]

\* PowerManager::requestSuspend
RequestSuspend(reason) ==
    /\ status = "ok"
    /\ Len(hist) < MaxSuspendRequests
    /\ \E modalias \in ModaliasFiles, docked \in DockedFiles,
          staleId \in BOOLEAN, stale \in BOOLEAN, outcome \in SuspendOutcomes :
         LET r == requestSuspend(reason, probe(modalias, staleId), isDocked(docked, stale),
                                 outcome)
         IN  /\ hist' = Append(hist, [op |-> "requestSuspend", reason |-> reason,
                                      present |-> probe(modalias, staleId),
                                      docked |-> isDocked(docked, stale),
                                      suspends |-> r.suspends, ret |-> r.ret, log |-> r.log])
             /\ call' = [op |-> "requestSuspend", m |-> 0, ret |-> <<r.ret>>]
    /\ UNCHANGED <<controllers, videoOutputs, availableControllers, monitors, status>>

\* a process that uses the PowerManager only
InitPower ==
    /\ controllers = << >>
    /\ videoOutputs = << >>
    /\ availableControllers = << >>
    /\ monitors = << >>
    /\ status = "ok"
    /\ call = [op |-> "new", m |-> 0, ret |-> << >>]
    /\ hist = << >>

NextPower ==
    \/ \E reason \in SuspendReasons : RequestSuspend(reason)

SpecPower == InitPower /\ [][NextPower]_vars

-----------------------------------------------------------------------------
(* Properties of the pool and of the Monitor life cycle *)

Held(c) == { m \in Monitors : monitors[m].videoController = c }

Unbound(mon) ==
    /\ mon.videoController = None
    /\ mon.videoControllerInfo.null
    /\ mon.videoModeInfo = 0

BoundActive(mon) ==
    /\ mon.videoController # None
    /\ ~mon.videoControllerInfo.null
    /\ mon.videoControllerInfo.mode # None

\* C1: no controller is both in the availability vector and held by a Monitor, and no
\* controller is held by two Monitors.
C1_LeaseExclusive ==
    \A c \in Range(controllers) :
        /\ ~(c \in Range(availableControllers) /\ Held(c) # {})
        /\ Cardinality(Held(c)) <= 1

\* C2: once the Monitors are built, every controller of the snapshot is in the
\* availability vector or held by a Monitor.
C2_NoControllerLost ==
    Len(monitors) # 0 =>
        \A c \in Range(controllers) : c \in Range(availableControllers) \/ Held(c) # {}

\* the k-th of a run of leases that starts with the availability vector `before`
KthLease(before, k) == IF k <= Len(before) THEN before[k] ELSE None

HistOps == [ i \in DOMAIN hist |-> <<hist[i].op, hist[i].arg>> ]

LeaseScenario ==
    << <<"requestController", None>>, <<"requestController", None>>,
       <<"requestController", None>>, <<"releaseController", 1>>,
       <<"requestController", None>> >>

\* C3: a lease removes and returns the front of the availability vector, a release
\* appends at the back; a run of successive leases returns the controllers in
\* availability order (None once they are used up); seeded with <<1, 2>>, lease, lease,
\* lease, release 1, lease returns 1, 2, None, -, 1.
C3_LeaseOrder ==
    /\ \A i \in DOMAIN hist :
          /\ hist[i].op = "requestController" =>
                IF hist[i].before = << >>
                THEN hist[i].ret = None /\ hist[i].after = << >>
                ELSE hist[i].ret = Head(hist[i].before) /\ hist[i].after = Tail(hist[i].before)
          /\ hist[i].op = "releaseController" =>
                hist[i].after = hist[i].before \o <<hist[i].arg>>
    /\ \A i \in DOMAIN hist : \A j \in i..Len(hist) :
          (\A k \in i..j : hist[k].op = "requestController")
              => hist[j].ret = KthLease(hist[i].before, j - i + 1)
    /\ (controllers = <<1, 2>> /\ HistOps = LeaseScenario)
          => <<hist[1].ret, hist[2].ret, hist[3].ret, hist[5].ret>> = <<1, 2, None, 1>>

C3_Witness ==
    /\ controllers = <<1, 2>>
    /\ HistOps = LeaseScenario
    /\ hist[5].ret = 1
    /\ availableControllers = << >>

\* C4: with the pool empty, requestController returns None and reconfigure() returns
\* false, and the step changes neither the availability vector nor any Monitor.
C4_EmptyPoolLeaseFails ==
    [][ (call'.op = "reconfigure" /\ availableControllers = << >>)
            => /\ requestControllerRet(availableControllers) = None
               /\ call'.ret = <<0>>
               /\ availableControllers' = << >>
               /\ monitors' = monitors ]_vars

C4_Witness ==
    /\ call.op = "reconfigure"
    /\ call.ret = <<0>>
    /\ availableControllers = << >>
    /\ BoundActive(monitors[call.m])

\* C5: a lease followed by the release of the leased controller leaves the availability
\* vector with the size and the members (counted with multiplicity) it had before.
C5_LeaseReleaseRestores ==
    \A i \in DOMAIN hist :
        (/\ i < Len(hist)
         /\ hist[i].op = "requestController"
         /\ hist[i].ret # None
         /\ hist[i + 1].op = "releaseController"
         /\ hist[i + 1].arg = hist[i].ret)
        => /\ Len(hist[i + 1].after) = Len(hist[i].before)
           /\ SeqToBag(hist[i + 1].after) = SeqToBag(hist[i].before)

C5_Witness ==
    \E i \in DOMAIN hist :
        /\ i < Len(hist)
        /\ hist[i].op = "requestController"
        /\ hist[i].ret # None
        /\ hist[i + 1].op = "releaseController"
        /\ hist[i + 1].arg = hist[i].ret
        /\ Len(hist[i].before) >= 2
        /\ hist[i + 1].after # hist[i].before

\* C6: release() leaves its Monitor unbound; a controller the Monitor held is appended
\* to the availability vector, and a release of an unbound Monitor adds nothing.
C6_ReleaseUnbinds ==
    [][ call'.op = "release"
            => /\ Unbound(monitors'[call'.m])
               /\ \A m \in Monitors \ {call'.m} : monitors'[m] = monitors[m]
               /\ IF monitors[call'.m].videoController # None
                  THEN /\ monitors[call'.m].videoController \in Range(availableControllers')
                       /\ availableControllers' =
                              Append(availableControllers, monitors[call'.m].videoController)
                  ELSE availableControllers' = availableControllers ]_vars

C6_Witness ==
    /\ call.op = "release"
    /\ Unbound(monitors[call.m])
    /\ availableControllers = <<2, 1>>

\* C7: turnOff() on a Monitor with a controller and an active mode leaves it off, its
\* mode cleared, with the same controller and the same availability vector; on a
\* Monitor without controller info it changes nothing.
C7_TurnOffKeepsController ==
    [][ call'.op = "turnOff"
            => /\ availableControllers' = availableControllers
               /\ \A m \in Monitors \ {call'.m} : monitors'[m] = monitors[m]
               /\ BoundActive(monitors[call'.m])
                    => /\ isOff(monitors'[call'.m])
                       /\ monitors'[call'.m].videoModeInfo = 0
                       /\ monitors'[call'.m].videoControllerInfo.mode = None
                       /\ ~monitors'[call'.m].videoControllerInfo.null
                       /\ monitors'[call'.m].videoController = monitors[call'.m].videoController
               /\ monitors[call'.m].videoControllerInfo.null
                    => monitors' = monitors ]_vars

C7_Witness ==
    /\ call.op = "turnOff"
    /\ monitors[call.m].videoController # None
    /\ ~monitors[call.m].videoControllerInfo.null
    /\ monitors[call.m].videoControllerInfo.mode = None
    /\ monitors[call.m].videoControllerInfo.width # 0
    /\ monitors[call.m].videoModeInfo = 0

\* C8: setOutputMode with a mode the catalog does not hold, on a Monitor that has
\* controller info, only logs: no invalid access, and the controller info's mode and
\* height stay as they were.
C8_AbsentModeOnlyLogs ==
    [][ \A m \in Monitors : \A mode \in ModeIds :
            (SetOutputMode(m, mode) /\ FindMode(mode) = 0 /\ ~monitors[m].videoControllerInfo.null)
                => /\ status' = "ok"
                   /\ monitors'[m].videoControllerInfo.mode = monitors[m].videoControllerInfo.mode
                   /\ monitors'[m].videoControllerInfo.height = monitors[m].videoControllerInfo.height ]_vars

\* C9: on a Monitor without a controller, getPosition returns (-1, -1) and neither
\* getPosition nor setPosition changes a Monitor or the pool.
C9_UnboundPositionSentinel ==
    [][ /\ (call'.op = "getPosition" /\ monitors[call'.m].videoController = None)
            => /\ call'.ret = <<-1, -1>>
               /\ monitors' = monitors
               /\ availableControllers' = availableControllers
        /\ (call'.op = "setPosition" /\ monitors[call'.m].videoController = None)
            => /\ monitors' = monitors
               /\ availableControllers' = availableControllers ]_vars

C9_Witness ==
    /\ call.op = "getPosition"
    /\ call.ret = <<-1, -1>>
    /\ Unbound(monitors[call.m])
    /\ availableControllers = <<2, 1>>

\* C10: a second calculateLimits on an anchor whose limits are already calculated, the
\* links and modes unchanged, leaves the canvas (pixels and millimeters) as the first left it.
C10_LimitsIdempotent ==
    [][ (/\ call'.op = "calculateLimits"
         /\ monitors[call'.m].limitsCalculated
         /\ status' = "ok")
            => Canvas(monitors'[call'.m]) = Canvas(monitors[call'.m]) ]_vars

-----------------------------------------------------------------------------
(* Properties of the layout *)

RECURSIVE SumSeq(_)
SumSeq(s) == IF s = << >> THEN 0 ELSE Head(s) + SumSeq(Tail(s))

MaxOf(S) == IF S = {} THEN 0 ELSE CHOOSE v \in S : \A w \in S : w <= v

Widths(mons, wing) == [ i \in DOMAIN wing |-> ModeWidth(mons[wing[i]]) ]

Heights(mons, wing) == [ i \in DOMAIN wing |-> ModeHeight(mons[wing[i]]) ]

\* the anchor and every Monitor of its four wings carry a mode
AllCarryModes(mons, m) ==
    /\ mons[m].videoModeInfo # 0
    /\ \A dir \in Dirs : \A i \in DOMAIN Wing(mons, m, dir) :
            mons[Wing(mons, m, dir)[i]].videoModeInfo # 0

\* C11: the first calculateLimits on an anchor whose wings all carry modes leaves
\* canvas width = max(widths of left wing + anchor + right wing, widest of anchor, top
\* and bottom wing) and canvas height = max(heights of top wing + anchor + bottom wing,
\* tallest of anchor, left and right wing); an anchor 1080 high under one top neighbour
\* 900 high, with nothing taller on the horizontal axis, gets a canvas 1980 high.
C11_CanvasIsMaxOfTotals ==
    [][ (/\ call'.op = "calculateLimits"
         /\ status' = "ok"
         /\ ~monitors[call'.m].limitsCalculated
         /\ AllCarryModes(monitors, call'.m))
            => LET m == call'.m
                   w(dir) == Widths(monitors, Wing(monitors, m, dir))
                   h(dir) == Heights(monitors, Wing(monitors, m, dir))
                   W == ModeWidth(monitors[m])
                   H == ModeHeight(monitors[m])
               IN  /\ monitors'[m].screenWidth =
                         MaxOf({ SumSeq(w("left")) + W + SumSeq(w("right")), W }
                               \cup Range(w("top")) \cup Range(w("bottom")))
                   /\ monitors'[m].screenHeight =
                         MaxOf({ SumSeq(h("top")) + H + SumSeq(h("bottom")), H }
                               \cup Range(h("left")) \cup Range(h("right")))
                   /\ (/\ H = 1080
                       /\ h("top") = <<900>>
                       /\ h("bottom") = << >>
                       /\ Range(h("left")) \cup Range(h("right")) \subseteq 0..1080)
                         => monitors'[m].screenHeight = 1980 ]_vars

C11_Witness ==
    /\ status = "ok"
    /\ hist = << [op |-> "calculateLimits", m |-> 1] >>
    /\ AllCarryModes(monitors, 1)
    /\ ModeHeight(monitors[1]) = 1080
    /\ Heights(monitors, Wing(monitors, 1, "top")) = <<900>>
    /\ Wing(monitors, 1, "bottom") = << >>
    /\ Wing(monitors, 1, "left") # << >>
    /\ monitors[1].screenHeight = 1980
    /\ monitors[1].screenWidth = 1920 + 1600

\* the four wings of anchor m hold pairwise different Monitors, none of them twice
SimpleLayout(mons, m) ==
    LET all == Wing(mons, m, "left") \o Wing(mons, m, "right")
                   \o Wing(mons, m, "top") \o Wing(mons, m, "bottom")
    IN  /\ ~PositionsEndless(mons, m)
        /\ \A i, j \in DOMAIN all : i # j => all[i] # all[j]

\* C12: calculateRelativePositions places the anchor at (widths of the left wing,
\* heights of the top wing); with one left neighbour of width L, an anchor of width W
\* and one right neighbour, the x coordinates are anchor L, left neighbour 0, right
\* neighbour L + W.
C12_AnchorAfterLeftAndTop ==
    [][ (/\ call'.op = "calculateRelativePositions"
         /\ status' = "ok"
         /\ AllCarryModes(monitors, call'.m)
         /\ SimpleLayout(monitors, call'.m))
            => LET m == call'.m
                   left == Wing(monitors, m, "left")
                   right == Wing(monitors, m, "right")
               IN  /\ getPosition(monitors'[m]) =
                         << SumSeq(Widths(monitors, left)),
                            SumSeq(Heights(monitors, Wing(monitors, m, "top"))) >>
                   /\ (Len(left) = 1 /\ Len(right) = 1)
                         => /\ getPosition(monitors'[m])[1] = ModeWidth(monitors[left[1]])
                            /\ getPosition(monitors'[left[1]])[1] = 0
                            /\ getPosition(monitors'[right[1]])[1] =
                                  ModeWidth(monitors[left[1]]) + ModeWidth(monitors[m]) ]_vars

C12_Witness ==
    /\ status = "ok"
    /\ hist = << [op |-> "calculateRelativePositions", m |-> 1] >>
    /\ Wing(monitors, 1, "left") = <<2>>
    /\ Wing(monitors, 1, "right") = <<3>>
    /\ getPosition(monitors[1]) = <<1600, 0>>
    /\ getPosition(monitors[2]) = <<0, 0>>
    /\ getPosition(monitors[3]) = <<1600 + 1920, 0>>

\* C13: along the left wing, walking outward from the anchor, each Monitor's x is the x
\* of the Monitor placed before it (the anchor's for the first) minus its own width,
\* so the outermost sits at x = 0; the top wing likewise on y with heights.
C13_WingsStepOutward ==
    [][ (/\ call'.op = "calculateRelativePositions"
         /\ status' = "ok"
         /\ AllCarryModes(monitors, call'.m)
         /\ SimpleLayout(monitors, call'.m))
            => LET m == call'.m
                   left == Wing(monitors, m, "left")
                   top == Wing(monitors, m, "top")
                   x(k) == getPosition(monitors'[k])[1]
                   y(k) == getPosition(monitors'[k])[2]
               IN  /\ \A i \in DOMAIN left :
                         x(left[i]) = (IF i = 1 THEN x(m) ELSE x(left[i - 1]))
                                          - ModeWidth(monitors[left[i]])
                   /\ left # << >> => x(left[Len(left)]) = 0
                   /\ \A i \in DOMAIN top :
                         y(top[i]) = (IF i = 1 THEN y(m) ELSE y(top[i - 1]))
                                          - ModeHeight(monitors[top[i]])
                   /\ top # << >> => y(top[Len(top)]) = 0 ]_vars

-----------------------------------------------------------------------------
(* Properties of applyConfiguration *)

\* the last call was an applyConfiguration that returned, on an anchor that is not off
AppliedOn ==
    /\ call.op = "applyConfiguration"
    /\ status = "ok"
    /\ ~isOff(monitors[call.m])

\* the requests of the last applyConfiguration call
LastXCalls == hist[Len(hist)].xcalls

\* the places of the requests named `name` in the request sequence x
Places(x, name) == { i \in DOMAIN x : x[i][1] = name }

\* C14: in an applyConfiguration on a Monitor that is not off, every XRRSetCrtcConfig
\* and the XRRSetScreenSize come strictly after the XGrabServer and strictly before the
\* XUngrabServer; the canvas size is set once, after every XRRSetCrtcConfig; XSync is
\* the last request, after the XUngrabServer.
C14_CommitsInsideGrab ==
    AppliedOn =>
        LET x == LastXCalls
            commits == Places(x, "XRRSetCrtcConfig")
            sizes == Places(x, "XRRSetScreenSize")
        IN  /\ Cardinality(Places(x, "XGrabServer")) = 1
            /\ Cardinality(Places(x, "XUngrabServer")) = 1
            /\ Cardinality(sizes) = 1
            /\ commits # {}
            /\ \A g \in Places(x, "XGrabServer"), u \in Places(x, "XUngrabServer") :
                  /\ \A i \in commits \cup sizes : g < i /\ i < u
                  /\ u < Len(x)
            /\ \A i \in commits, j \in sizes : i < j
            /\ Places(x, "XSync") = {Len(x)}

C14_Witness ==
    /\ AppliedOn
    /\ call.m = 1
    /\ monitors[1].isPrimary
    /\ Wing(monitors, 1, "left") = <<2>>
    /\ Wing(monitors, 1, "bottom") = <<3>>
    /\ Len(LastXCalls) = 8
    /\ LastXCalls[6][1] = "XRRSetScreenSize"

\* C15: applyConfiguration on a Monitor that is off (no controller, or a controller
\* with no active mode) sends exactly one request, the XRRSetCrtcConfig that disables
\* that Monitor's controller (mode None, no output), and returns: no grab, no other
\* commit, no primary marker, no canvas size, no limits or positions calculated, no
\* invalid access.
C15_OffAppliesOneDisable ==
    [][ (call'.op = "applyConfiguration" /\ isOff(monitors[call'.m]))
            => LET x == hist'[Len(hist')].xcalls
               IN  /\ status' = "ok"
                   /\ monitors' = monitors
                   /\ Len(x) = 1
                   /\ x[1][1] = "XRRSetCrtcConfig"
                   /\ x[1][2] = monitors[call'.m].videoController
                   /\ x[1][5] = None
                   /\ x[1][6] = << >> ]_vars

\* C18: an applyConfiguration on an anchor that is not off commits the anchor and then
\* the left, the right, the top and the bottom wing, each followed through its own link
\* to the first null link: 1 + the four lengths commits, a Monitor that is in two wings
\* being committed once per wing.
C18_OneCommitPerChainMember ==
    AppliedOn =>
        LET x == LastXCalls
            m == call.m
            targets == <<m>> \o Wing(monitors, m, "left") \o Wing(monitors, m, "right")
                           \o Wing(monitors, m, "top") \o Wing(monitors, m, "bottom")
            commits == SelectSeq(x, LAMBDA r : r[1] = "XRRSetCrtcConfig")
        IN  /\ Len(commits) = 1 + Len(Wing(monitors, m, "left")) + Len(Wing(monitors, m, "right"))
                                + Len(Wing(monitors, m, "top")) + Len(Wing(monitors, m, "bottom"))
            /\ commits = [ i \in DOMAIN targets |-> Commit(monitors[targets[i]]) ]
            /\ \A k \in Monitors :
                  Cardinality({ i \in DOMAIN commits : commits[i] = Commit(monitors[k]) })
                      >= Cardinality({ i \in DOMAIN targets : targets[i] = k })

C18_Witness ==
    /\ AppliedOn
    /\ call.m = 1
    /\ Wing(monitors, 1, "left") = <<2>>
    /\ Wing(monitors, 1, "top") = <<2>>
    /\ Cardinality(Places(LastXCalls, "XRRSetCrtcConfig")) = 3
    /\ LastXCalls[3] = LastXCalls[4]
    /\ LastXCalls[3][2] = monitors[2].videoController

\* C19 as claimed: the primary marker is sent exactly when the anchor's primary flag is
\* set, after the commits of the anchor and of all four wings and before the canvas
\* size is set.
C19_PrimaryAfterAllCommits ==
    AppliedOn =>
        LET x == LastXCalls
            marks == Places(x, "XRRSetOutputPrimary")
        IN  /\ (marks # {}) = monitors[call.m].isPrimary
            /\ \A p \in marks :
                  /\ \A i \in Places(x, "XRRSetCrtcConfig") : i < p
                  /\ \A j \in Places(x, "XRRSetScreenSize") : p < j

\* C19, amended: the primary marker, naming the anchor's output, is sent exactly when
\* the anchor's primary flag is set (at most once); it directly follows the anchor's
\* commit, so it precedes every wing commit and the canvas size.
C19_PrimaryAfterAnchorCommit ==
    AppliedOn =>
        LET x == LastXCalls
            marks == Places(x, "XRRSetOutputPrimary")
        IN  /\ (marks # {}) = monitors[call.m].isPrimary
            /\ Cardinality(marks) <= 1
            /\ \A p \in marks :
                  /\ x[p] = <<"XRRSetOutputPrimary", monitors[call.m].videoOutput>>
                  /\ p = 3
                  /\ x[2] = Commit(monitors[call.m])
                  /\ \A i \in Places(x, "XRRSetCrtcConfig") : i # 2 => p < i
                  /\ \A j \in Places(x, "XRRSetScreenSize") : p < j

C19_Witness ==
    /\ AppliedOn
    /\ call.m = 1
    /\ monitors[1].isPrimary
    /\ Wing(monitors, 1, "right") = <<2, 3>>
    /\ LastXCalls[3] = <<"XRRSetOutputPrimary", 1>>
    /\ LastXCalls[4][1] = "XRRSetCrtcConfig"
    /\ LastXCalls[5][1] = "XRRSetCrtcConfig"

\* the canvas-size request of the request sequence x (x holds one)
SizeRequest(x) == x[CHOOSE i \in DOMAIN x : x[i][1] = "XRRSetScreenSize"]

\* two applyConfiguration calls on the same anchor, not off, have returned, the second
\* one last
AppliedTwice ==
    /\ AppliedOn
    /\ Len(hist) = 2
    /\ hist[1].m = call.m
    /\ Places(hist[1].xcalls, "XRRSetScreenSize") # {}

\* C20: when applyConfiguration is called twice on the same anchor, links or modes
\* changed in between, the second call sets the canvas size the first call set, while
\* the positions it commits are those of the current links and modes: the anchor at
\* (widths of its left wing, heights of its top wing), the right wing from the anchor's
\* right edge on, each commit as a fresh calculation of the positions gives it.
C20_CanvasKeptPositionsRecomputed ==
    AppliedTwice =>
        LET m == call.m
            x == LastXCalls
            commits == SelectSeq(x, LAMBDA r : r[1] = "XRRSetCrtcConfig")
            targets == <<m>> \o ChainTargets(monitors, m)
            right == Wing(monitors, m, "right")
            fresh == calculateRelativePositions(monitors, m)
        IN  /\ SizeRequest(x) = SizeRequest(hist[1].xcalls)
            /\ AllCarryModes(monitors, m) =>
                  /\ <<commits[1][3], commits[1][4]>> =
                        << SumSeq(Widths(monitors, Wing(monitors, m, "left"))),
                           SumSeq(Heights(monitors, Wing(monitors, m, "top"))) >>
                  /\ (SimpleLayout(monitors, m) /\ right # << >>) =>
                        getPosition(monitors[right[1]]) =
                            <<commits[1][3] + ModeWidth(monitors[m]), commits[1][4]>>
                  /\ commits = [ i \in DOMAIN targets |-> Commit(fresh[targets[i]]) ]

C20_Witness ==
    /\ AppliedTwice
    /\ call.m = 1
    /\ SizeRequest(hist[1].xcalls) = <<"XRRSetScreenSize", 1920, 1080, 340, 210>>
    /\ SizeRequest(LastXCalls) = <<"XRRSetScreenSize", 1920, 1080, 340, 210>>
    /\ hist[1].xcalls[2] = <<"XRRSetCrtcConfig", 1, 0, 0, 1, <<1>>>>
    /\ Wing(monitors, 1, "left") = <<2>>
    /\ LastXCalls[2] = <<"XRRSetCrtcConfig", 1, 1600, 0, 1, <<1>>>>
    /\ LastXCalls[3] = <<"XRRSetCrtcConfig", 2, 0, 0, 2, <<2>>>>

-----------------------------------------------------------------------------
(* Properties of the PowerManager and of discovery *)

\* C16: requestSuspend on a lid close calls suspend exactly when the dock is present
\* (probe() true) and not engaged (isDocked() false); with the dock engaged it does not
\* suspend, with the dock absent it does not suspend and logs; on a button press it
\* always calls suspend, whatever the dock's state.
C16_LidSuspendsOnlyUndocked ==
    \A i \in DOMAIN hist :
        /\ hist[i].reason = "SUSPEND_REASON_LID" =>
              /\ (hist[i].suspends = 1) = (hist[i].present /\ ~hist[i].docked)
              /\ hist[i].suspends \in {0, 1}
              /\ (hist[i].present /\ hist[i].docked) => hist[i].suspends = 0
              /\ ~hist[i].present =>
                    /\ hist[i].suspends = 0
                    /\ hist[i].log = <<"dock is not sane/present">>
        /\ hist[i].reason = "SUSPEND_REASON_BUTTON" => hist[i].suspends = 1

C16_Witness ==
    /\ Len(hist) = 2
    /\ hist[1].reason = "SUSPEND_REASON_LID"
    /\ hist[1].present
    /\ ~hist[1].docked
    /\ hist[1].suspends = 1
    /\ hist[2].reason = "SUSPEND_REASON_LID"
    /\ hist[2].present
    /\ hist[2].docked
    /\ hist[2].suspends = 0
    /\ hist[2].ret = FALSE

\* C17: the first getMonitors builds one Monitor per output of the snapshot, in order,
\* and leaves available exactly the controllers no output reports as its own; a later
\* getMonitors returns the collection as it is: no Monitor created, the availability
\* vector and every Monitor unchanged.
C17_MonitorsBuiltOnce ==
    [][ call'.op = "getMonitors"
            => IF Len(monitors) = 0
               THEN /\ Len(monitors') = Len(videoOutputs)
                    /\ \A k \in DOMAIN monitors' :
                          /\ monitors'[k].videoOutput = videoOutputs[k]
                          /\ monitors'[k].videoController # None
                                => monitors'[k].videoController \notin Range(availableControllers')
                    /\ availableControllers' =
                          SelectSeq(availableControllers,
                                    LAMBDA c : \A k \in DOMAIN monitors' :
                                                  monitors'[k].videoController # c)
               ELSE /\ monitors' = monitors
                    /\ availableControllers' = availableControllers ]_vars

C17_Witness ==
    /\ call.op = "getMonitors"
    /\ call.ret = <<2>>
    /\ controllers = <<1, 2>>
    /\ monitors[1].videoController = 2
    /\ BoundActive(monitors[1])
    /\ Unbound(monitors[2])
    /\ availableControllers = <<1>>

-----------------------------------------------------------------------------
(* Failed queries, termination, the grabbed section and the canvas *)

\* a Monitor with a controller whose controller-info query returned nothing, or whose
\* mode is set and has no entry in the mode catalog
QueryFailed(mon) ==
    /\ mon.videoController # None
    /\ \/ mon.videoControllerInfo.null
       \/ mon.videoControllerInfo.mode # None /\ mon.videoModeInfo = 0

\* C21: a Monitor whose controller-info or mode-info query returned nothing is treated
\* as inactive: isOff() on it returns true, and applyConfiguration() on it, or on an
\* anchor with it in one of its (acyclic) chains, completes without a trap.
C21_FailedQueryIsInactive ==
    [][ /\ (call.op # "isOff" /\ call'.op = "isOff" /\ QueryFailed(monitors[call'.m]))
            => (status' = "ok" /\ call'.ret = <<TRUE>>)
        /\ ( /\ hist' # hist
             /\ ~PositionsEndless(monitors, call'.m)
             /\ \E k \in {call'.m} \cup Range(ChainTargets(monitors, call'.m)) :
                    QueryFailed(monitors[k]) )
            => status' = "ok" ]_vars

\* each of the four chains of anchor m, followed through its own direction link, ends in
\* a null link
ChainsEnd(mons, m) == \A dir \in Dirs : ~Endless(mons, m, dir)

\* C22: applyConfiguration() on an anchor that is not off and whose four chains each end
\* in a null link terminates: it sends its requests up to the final XSync and returns
\* true.
C22_AcyclicApplyReturns ==
    [][ (hist' # hist /\ ~isOff(monitors[call'.m]) /\ ChainsEnd(monitors, call'.m))
            => /\ status' = "ok"
               /\ call'.ret = <<1>>
               /\ hist'[Len(hist')].xcalls # << >>
               /\ hist'[Len(hist')].xcalls[Len(hist'[Len(hist')].xcalls)] = <<"XSync">> ]_vars

\* C23: a server grab acquired by applyConfiguration() is followed by the ungrab, for
\* every topology the four neighbour setters can build: in the requests of every call,
\* however it ended, each XGrabServer has an XUngrabServer after it.
C23_GrabFollowedByUngrab ==
    \A i \in DOMAIN hist :
        \A g \in Places(hist[i].xcalls, "XGrabServer") :
            \E u \in Places(hist[i].xcalls, "XUngrabServer") : u > g

\* calculateLimits and then calculateRelativePositions have returned on anchor m
LaidOut(m) ==
    /\ status = "ok"
    /\ Len(hist) = 2
    /\ hist[1] = [op |-> "calculateLimits", m |-> m]
    /\ hist[2] = [op |-> "calculateRelativePositions", m |-> m]

\* the rectangle of Monitor mon lies inside the canvas of anchor
InsideCanvas(mon, anchor) ==
    /\ 0 <= mon.videoControllerInfo.x
    /\ 0 <= mon.videoControllerInfo.y
    /\ mon.videoControllerInfo.x + ModeWidth(mon) <= anchor.screenWidth
    /\ mon.videoControllerInfo.y + ModeHeight(mon) <= anchor.screenHeight

\* C24: after calculateLimits() and calculateRelativePositions() on an anchor whose
\* chains are acyclic, hold pairwise different Monitors and all carry modes, the
\* rectangle of the anchor and of every Monitor of its four chains lies inside the
\* canvas: 0 <= x, 0 <= y, x + width <= canvas width and y + height <= canvas height.
C24_RectanglesInsideCanvas ==
    \A m \in Monitors :
        (LaidOut(m) /\ SimpleLayout(monitors, m) /\ AllCarryModes(monitors, m))
            => \A k \in {m} \cup Range(ChainTargets(monitors, m)) :
                    InsideCanvas(monitors[k], monitors[m])

====
